---- MODULE Spec2Model ----
(***************************************************************************)
(* Model of the RedEye server resolvers                                    *)
(* (applications/server/src/store/server-resolvers.ts): the project        *)
(* database of Servers, Beacons and Hosts, the GraphQL handlers that read  *)
(* and write it, the parse trigger and the validate-files endpoint.        *)
(*                                                                         *)
(* A handler is an async function: every `await` is a point where another  *)
(* request may run and where the awaited promise may reject.               *)
(* toggleServerHidden and the servers query are modelled one awaited       *)
(* statement per step, so that they interleave, with a step that throws.   *)
(* updateServerMetadata and serverUpdate are modelled a call per step,     *)
(* with the awaited statement that rejects, if any, as an input.           *)
(***************************************************************************)
EXTENDS Naturals, Sequences, FiniteSets

\* ------------------------------------------------------------------ bounds
NumBeacons == 3
\* how many awaited statements may reject in one run
MaxThrows == 1
\* how many messages the job coordinator's queue may hold
MaxQueue == 3
\* how many comments a campaign may hold
MaxComments == 3

\* ---------------------------------------------------------------- entities
\* the Server rows, in the order a find returns them
ServerSeq == <<"s1", "s2">>
Servers == {ServerSeq[i] : i \in 1..Len(ServerSeq)}
Hosts == {"h1", "h2"}
Beacons == 1..NumBeacons
\* a serverId argument that resolves to no row
NoSuchServer == "s0"
ServerIdArgs == Servers \cup {NoSuchServer}

VARIABLES
  servers,   \* Server rows of the project database: id -> fields
  beacons,   \* Beacon rows: id -> fields (server and host are the relations)
  hosts,     \* Host rows: id -> fields
  toggle,    \* the toggleServerHidden request in flight, or how the last ended
  toggleLog, \* history: the latest toggleServerHidden calls with the flags before each
  query,     \* the servers query in flight, or its response
  throws,    \* how many awaited statements have rejected
  lastCall,  \* the last updateServerMetadata or serverUpdate call and how it ended
  messages,  \* the job coordinator's queue: the messages sent and not yet worked off
  parsed,    \* the campaigns whose parse job has completed
  parseCall, \* the last serversParse call and what it answered
  upload,    \* the validate-files request in flight, or the one that ended last
  tempDirs,  \* how many temporary directories exist on disk
  comments   \* the comments of the campaign, each on a command, with its tags

dbVars == <<servers, beacons, hosts>>
hiddenVars == <<toggle, toggleLog, query, throws>>
parseVars == <<messages, parsed, parseCall>>
uploadVars == <<upload, tempDirs>>
vars == <<dbVars, hiddenVars, lastCall, parseVars, uploadVars, comments>>

\* ------------------------------------------------------------ relations
\* server.beacons: the Beacon rows whose server is s
BeaconsOf(s) == {b \in Beacons : beacons[b].server = s}

\* a set of beacon ids as the sequence a collection iterates, by ascending id
RECURSIVE InOrder(_)
InOrder(S) ==
  IF S = {} THEN <<>>
  ELSE LET m == CHOOSE x \in S : \A y \in S : x <= y
       IN <<m>> \o InOrder(S \ {m})

\* the hidden flags of every row, as one value
HiddenSnapshot ==
  [server |-> [s \in Servers |-> servers[s].hidden],
   beacon |-> [b \in Beacons |-> beacons[b].hidden],
   host   |-> [h \in Hosts |-> hosts[h].hidden]]

\* ------------------------------------------------------ toggleServerHidden
\* no request in flight; `outcome` is how the last one ended
Ended(outcome) == [pc |-> "idle", outcome |-> outcome]

\* line 74 mutated: the flag is set instead of flipped
FlipSetsTrue(h) == TRUE

\* line 74: server.hidden = !server.hidden
Flip(h) == ~h

\* lines 72-75: connect, load the Server (NotFound if absent), flip the flag
\* of the loaded entity, load its beacons
ToggleBegin(serverId) ==
  /\ toggle.pc = "idle"
  /\ toggle' = IF serverId \notin Servers
               THEN Ended("NotFound")
               ELSE [pc |-> "beacon", sid |-> serverId,
                     hidden |-> Flip(servers[serverId].hidden),
                     todo |-> InOrder(BeaconsOf(serverId))]
  /\ UNCHANGED <<servers, beacons, hosts, throws>>

\* line 77: em.nativeUpdate(Beacon, { id: beacon.id }, { hidden: server.hidden })
BeaconUpdate(b, h) == [beacons EXCEPT ![b].hidden = h]

\* line 78: em.nativeUpdate(Host, { id: beacon.host?.id }, { hidden: server.hidden })
HostUpdate(b, h) == [hosts EXCEPT ![beacons[b].host].hidden = h]

ToggleUpdateBeacon ==
  /\ toggle.pc = "beacon"
  /\ toggle.todo # <<>>
  /\ beacons' = BeaconUpdate(Head(toggle.todo), toggle.hidden)
  /\ toggle' = [toggle EXCEPT !.pc = "host"]
  /\ UNCHANGED <<servers, hosts, throws>>

ToggleUpdateHost ==
  /\ toggle.pc = "host"
  /\ hosts' = HostUpdate(Head(toggle.todo), toggle.hidden)
  /\ toggle' = [toggle EXCEPT !.pc = "beacon", !.todo = Tail(toggle.todo)]
  /\ UNCHANGED <<servers, beacons, throws>>

\* lines 80-82: persistAndFlush(server), forkProject, return
TogglePersist ==
  /\ toggle.pc = "beacon"
  /\ toggle.todo = <<>>
  /\ servers' = [servers EXCEPT ![toggle.sid].hidden = toggle.hidden]
  /\ toggle' = Ended("ok")
  /\ UNCHANGED <<beacons, hosts, throws>>

\* an awaited statement of lines 75-80 rejects: the handler throws, and
\* what was written stays written (nativeUpdate is its own statement, no
\* transaction spans the handler)
ToggleThrow ==
  /\ toggle.pc \in {"beacon", "host"}
  /\ throws < MaxThrows
  /\ throws' = throws + 1
  /\ toggle' = Ended("error")
  /\ UNCHANGED <<servers, beacons, hosts>>

\* History of the toggleServerHidden calls, written by no handler: an entry
\* per call with the hidden flags when it began and how it ended, the latest
\* last.  The entry before the latest is kept only while both completed on
\* the same server, one right after the other.
LogBegin(serverId) ==
  LET entry == [sid |-> serverId, outcome |-> "running", pre |-> HiddenSnapshot]
      last == toggleLog[Len(toggleLog)]
  IN IF toggleLog # <<>> /\ last.outcome = "ok" /\ last.sid = serverId
     THEN <<last, entry>>
     ELSE <<entry>>

LogEnd(outcome) ==
  IF outcome = "ok"
  THEN [toggleLog EXCEPT ![Len(toggleLog)].outcome = outcome]
  ELSE <<[toggleLog[Len(toggleLog)] EXCEPT !.outcome = outcome]>>

ToggleObserved ==
  toggleLog' =
    IF toggle.pc = "idle" /\ toggle'.pc = "idle"
    THEN <<[sid |-> NoSuchServer, outcome |-> "NotFound", pre |-> HiddenSnapshot]>>
    ELSE IF toggle.pc = "idle" THEN LogBegin(toggle'.sid)
    ELSE IF toggle'.pc = "idle" THEN LogEnd(toggle'.outcome)
    ELSE toggleLog

\* ------------------------------------------------------------- servers
\* line 45: the where of the find, !hidden ? { hidden, beacons: { hidden } } : {}
FindWhere(hidden, s) ==
  hidden \/ (~servers[s].hidden /\ \E b \in BeaconsOf(s) : ~beacons[b].hidden)

\* line 48 mutated: the beacons are loaded without the visibility filter
InitWhereAll(hidden, b) == TRUE

\* line 48: the where of server.beacons.init, !hidden ? { hidden } : {}
InitWhere(hidden, b) == hidden \/ ~beacons[b].hidden

\* the rows of `ids` in order, each as the entity the find hydrates
RECURSIVE Hydrate(_)
Hydrate(ids) ==
  IF ids = <<>> THEN <<>>
  ELSE <<[id |-> Head(ids), hidden |-> servers[Head(ids)].hidden]>>
         \o Hydrate(Tail(ids))

\* lines 33-47: connect, note the operator (best effort, not modelled: it
\* writes the main database only), find the Servers
ServersFind(hidden) ==
  /\ query.pc = "idle"
  /\ query' = [pc |-> "init", hiddenArg |-> hidden,
               todo |-> Hydrate(SelectSeq(ServerSeq, LAMBDA s : FindWhere(hidden, s))),
               result |-> {}]
  /\ UNCHANGED <<servers, beacons, hosts, throws>>

\* line 48, one turn of the loop: load the server's beacons
ServersInitBeacons ==
  /\ query.pc = "init"
  /\ query.todo # <<>>
  /\ LET server == Head(query.todo)
         loaded == {[id |-> b, hidden |-> beacons[b].hidden] :
                      b \in {x \in BeaconsOf(server.id) : InitWhere(query.hiddenArg, x)}}
     IN query' = [query EXCEPT
                    !.todo = Tail(query.todo),
                    !.result = @ \cup {[id |-> server.id, hidden |-> server.hidden,
                                        beacons |-> loaded]}]
  /\ UNCHANGED <<servers, beacons, hosts, throws>>

\* lines 49-50: forkMain, return servers; query.result is the response
ServersReturn ==
  /\ query.pc = "init"
  /\ query.todo = <<>>
  /\ query' = Ended("ok")
  /\ UNCHANGED <<servers, beacons, hosts, throws>>

\* ------------------------------------------------- optional string inputs
\* a nullable argument that was not given
Absent == "<absent>"
\* the values an optional string argument is drawn from
NameArgs == {Absent, "", "X"}
TypeArgs == {Absent, "https"}
\* `if (value)`: given and not empty
Truthy(value) == value # Absent /\ value # ""

\* --------------------------------------------------- updateServerMetadata
\* lines 99-103 mutated: the host's cobaltStrikeServer flag is not asked for
BeaconRenameAllOfServer(serverId, name) ==
  [b \in Beacons |->
     IF beacons[b].server = serverId
     THEN [beacons[b] EXCEPT !.displayName = name]
     ELSE beacons[b]]

\* lines 99-103: nativeUpdate(Beacon, { host: { cobaltStrikeServer: true },
\* server: serverId }, { displayName })
BeaconRename(serverId, name) ==
  [b \in Beacons |->
     IF hosts[beacons[b].host].cobaltStrikeServer /\ beacons[b].server = serverId
     THEN [beacons[b] EXCEPT !.displayName = name]
     ELSE beacons[b]]

\* lines 104-108: nativeUpdate(Host, { cobaltStrikeServer: true,
\* beacons: { server: serverId } }, { displayName })
HostRename(serverId, name) ==
  [h \in Hosts |->
     IF /\ hosts[h].cobaltStrikeServer
        /\ \E b \in Beacons : beacons[b].host = h /\ beacons[b].server = serverId
     THEN [hosts[h] EXCEPT !.displayName = name]
     ELSE hosts[h]]

\* lines 97-112 mutated: the name is assigned without the test of line 97
MetadataAssignedUnguarded(server, serverDisplayName, serverType) ==
  [server EXCEPT
     !.displayName = serverDisplayName,
     !.type = IF Truthy(serverType) THEN serverType ELSE @]

\* lines 98 and 111: the fields set on the loaded Server
MetadataAssigned(server, serverDisplayName, serverType) ==
  [server EXCEPT
     !.displayName = IF Truthy(serverDisplayName) THEN serverDisplayName ELSE @,
     !.type = IF Truthy(serverType) THEN serverType ELSE @]

\* the awaited statements of lines 99-113, in order; `rejects` is the one
\* that rejects, or "none"
MetadataStatements(serverDisplayName) ==
  IF Truthy(serverDisplayName)
  THEN <<"beaconUpdate", "hostUpdate", "persist">>
  ELSE <<"persist">>

\* statement `stmt` completed: it comes before the one that rejects
Completed(stmt, stmts, rejects) ==
  \E i \in 1..Len(stmts) :
    /\ stmts[i] = stmt
    /\ \A j \in 1..i : stmts[j] # rejects

\* lines 95-115, the whole call
UpdateServerMetadata(serverId, serverDisplayName, serverType, rejects) ==
  LET stmts == MetadataStatements(serverDisplayName)
  IN IF serverId \notin Servers
     THEN /\ rejects = "none"
          /\ lastCall' = [op |-> "updateServerMetadata", outcome |-> "NotFound"]
          /\ UNCHANGED <<servers, beacons, hosts>>
     ELSE /\ rejects = "none" \/ \E i \in 1..Len(stmts) : stmts[i] = rejects
          /\ beacons' = IF Completed("beaconUpdate", stmts, rejects)
                        THEN BeaconRename(serverId, serverDisplayName)
                        ELSE beacons
          /\ hosts' = IF Completed("hostUpdate", stmts, rejects)
                      THEN HostRename(serverId, serverDisplayName)
                      ELSE hosts
          /\ servers' = IF Completed("persist", stmts, rejects)
                        THEN [servers EXCEPT ![serverId] =
                                MetadataAssigned(@, serverDisplayName, serverType)]
                        ELSE servers
          /\ lastCall' = [op |-> "updateServerMetadata",
                          outcome |-> IF rejects = "none" THEN "ok" ELSE "error"]

\* ------------------------------------------------------------ serverUpdate
\* lines 152-154 mutated: every field is assigned, given or not
InputAssignedUnguarded(server, input) ==
  [server EXCEPT
     !.parsingPath = input.parsingPath,
     !.name = input.name,
     !.displayName = input.displayName]

\* lines 150-154: each field of the input is assigned when given and not empty
InputAssigned(server, input) ==
  [server EXCEPT
     !.parsingPath = IF Truthy(input.parsingPath) THEN input.parsingPath ELSE @,
     !.name = IF Truthy(input.name) THEN input.name ELSE @,
     !.displayName = IF Truthy(input.displayName) THEN input.displayName ELSE @]

ServerUpdateInputs == [parsingPath : NameArgs, name : NameArgs, displayName : NameArgs]

\* lines 147-158, the whole call; persistAndFlush may reject
ServerUpdate(serverId, input, rejects) ==
  IF serverId \notin Servers
  THEN /\ ~rejects
       /\ lastCall' = [op |-> "serverUpdate", outcome |-> "NotFound"]
       /\ UNCHANGED <<servers, beacons, hosts>>
  ELSE /\ servers' = IF rejects THEN servers
                     ELSE [servers EXCEPT ![serverId] = InputAssigned(@, input)]
       /\ lastCall' = [op |-> "serverUpdate",
                       outcome |-> IF rejects THEN "error" ELSE "ok"]
       /\ UNCHANGED <<beacons, hosts>>

\* ------------------------------------------------------------ serversParse
Campaigns == {"c1", "c2"}
\* a campaignId that connectToProjectEmOrFail does not resolve
NoSuchCampaign == "c0"
CampaignArgs == Campaigns \cup {NoSuchCampaign}

\* lines 59-60 mutated: the blue team test is missing
ParseAnswerUnchecked(blueTeam, campaignId) ==
  IF campaignId \notin Campaigns THEN "NotFound" ELSE "true"

\* lines 59-62: what the call answers; the first two are thrown
ParseAnswer(blueTeam, campaignId) ==
  IF blueTeam THEN "Parsing cannot be invoked from blue team mode"
  ELSE IF campaignId \notin Campaigns THEN "NotFound"
  ELSE "true"

\* line 61: the message handed to ctx.messengerMachine
ParseMessage(campaignId) == [type |-> "PARSE_CAMPAIGN", campaignId |-> campaignId]

\* lines 59-62, the whole call; ctx.config.blueTeam comes with the context
ServersParse(blueTeam, campaignId) ==
  /\ Len(messages) < MaxQueue
  /\ parseCall' = [blueTeam |-> blueTeam, campaignId |-> campaignId,
                   outcome |-> ParseAnswer(blueTeam, campaignId)]
  /\ messages' = IF ParseAnswer(blueTeam, campaignId) = "true"
                 THEN Append(messages, ParseMessage(campaignId))
                 ELSE messages
  /\ UNCHANGED parsed

\* the job coordinator works off the oldest message: the campaign is parsed
ParseJobComplete ==
  /\ messages # <<>>
  /\ parsed' = parsed \cup {Head(messages).campaignId}
  /\ messages' = Tail(messages)
  /\ UNCHANGED parseCall

\* ----------------------------------------------------- parserFileValidation
\* context.parserInfo: the parsers that are available
ParserInfo == {"cobalt-strike-parser"}
ParserNames == ParserInfo \cup {"no-such-parser"}

\* File names, a character an element.  ":" is the separator a browser puts
\* in an uploaded folder's paths.
FileNames == {<<"r", ":", "a">>, <<"r", "/", "b">>, <<"r", " ", "x", ":", "c">>}

\* req.files: absent, without a `file` field, one file, or an array of files
Uploads ==
  {[kind |-> "none", names |-> <<>>], [kind |-> "nofield", names |-> <<>>]}
    \cup {[kind |-> "single", names |-> <<n>>] : n \in FileNames}
    \cup {[kind |-> "array", names |-> <<n, m>>] : n \in FileNames, m \in FileNames}

\* name.replace(/:/gi, '/')
ReplaceColons(name) ==
  [i \in 1..Len(name) |-> IF name[i] = ":" THEN "/" ELSE name[i]]

\* path.split('/')[0]
RECURSIVE FirstSegment(_)
FirstSegment(path) ==
  IF path = <<>> \/ Head(path) = "/" THEN <<>>
  ELSE <<Head(path)>> \o FirstSegment(Tail(path))

\* path.join(dir, rest)
PathJoin(dir, rest) == IF rest = <<>> THEN dir ELSE dir \o <<"/">> \o rest

\* path.replace(/(\s+)/g, '\\$1'): a backslash before every run of blanks
RECURSIVE EscapeBlanks(_, _)
EscapeBlanks(path, afterBlank) ==
  IF path = <<>> THEN <<>>
  ELSE IF Head(path) = " "
       THEN (IF afterBlank THEN <<" ">> ELSE <<"\\", " ">>)
              \o EscapeBlanks(Tail(path), TRUE)
       ELSE <<Head(path)>> \o EscapeBlanks(Tail(path), FALSE)

\* the directory withTempDir hands to its callback
TempDir == <<"t">>

\* lines 179-183: the arguments of invokeParser
ParserArgv(names) ==
  <<"validate-files", "--folder",
    EscapeBlanks(PathJoin(TempDir, FirstSegment(ReplaceColons(names[1]))), FALSE)>>

\* line 178: where each file is moved to
MoveTargets(names) ==
  {PathJoin(TempDir, ReplaceColons(names[i])) : i \in 1..Len(names)}

\* no response sent
NoResponse == [status |-> 0, body |-> <<>>]

\* lines 172-173 mutated: the files are tested before the parser
EarlyResponseFilesFirst(parserName, files) ==
  IF files.kind = "none"
  THEN [status |-> 500, body |-> <<"No files provided">>]
  ELSE IF parserName \notin ParserInfo
  THEN [status |-> 400, body |-> <<"Parser ", parserName, " is not available">>]
  ELSE NoResponse

\* lines 171-173: the response that ends the request before any work
EarlyResponse(parserName, files) ==
  IF parserName \notin ParserInfo
  THEN [status |-> 400, body |-> <<"Parser ", parserName, " is not available">>]
  ELSE IF files.kind = "none"
  THEN [status |-> 500, body |-> <<"No files provided">>]
  ELSE NoResponse

\* line 176 mutated: the callback's body runs without withTempDir
AfterChecksBare == "invoke"

\* line 176: the request goes on into withTempDir
AfterChecks == "tempdir"

\* lines 170-176: a request arrives and is answered at once or goes on
ValidateRequest(parserName, files) ==
  /\ upload.pc \in {"idle", "done"}
  /\ upload' = [pc |-> IF EarlyResponse(parserName, files) = NoResponse
                       THEN AfterChecks ELSE "done",
                parserName |-> parserName, files |-> files,
                response |-> EarlyResponse(parserName, files),
                acquired |-> 0, released |-> 0, invoked |-> 0,
                staged |-> {}, argv |-> <<>>, error |-> "none"]
  /\ UNCHANGED tempDirs

\* withTempDir, entry: the directory is made, or making it fails and the
\* handler throws
TempDirCreate ==
  /\ upload.pc = "tempdir"
  /\ \/ /\ tempDirs' = tempDirs + 1
        /\ upload' = [upload EXCEPT !.pc = "callback", !.acquired = @ + 1]
     \/ /\ upload' = [upload EXCEPT !.pc = "done", !.error = "mkdtemp"]
        /\ UNCHANGED tempDirs

\* lines 177-178: the root directory is read off the first file's name (a
\* TypeError when req.files has no `file`), the files are moved, and
\* Promise.allSettled settles whichever moves fail
ValidateStage ==
  /\ upload.pc = "callback"
  /\ IF upload.files.kind = "nofield"
     THEN upload' = [upload EXCEPT !.pc = "cleanup", !.error = "TypeError"]
     ELSE \E moved \in SUBSET MoveTargets(upload.files.names) :
            upload' = [upload EXCEPT !.pc = "invoke", !.staged = moved]
  /\ UNCHANGED tempDirs

\* lines 179-183: the parser runs and reports, or fails
ValidateInvokeParser ==
  /\ upload.pc = "invoke"
  /\ \E report \in {"valid", "invalid", "failed"} :
       upload' = [upload EXCEPT
                    !.pc = "cleanup",
                    !.invoked = @ + 1,
                    !.argv = ParserArgv(upload.files.names),
                    !.error = IF report = "failed" THEN "parser" ELSE "none",
                    !.response = IF report = "failed" THEN NoResponse
                                 ELSE [status |-> 200, body |-> <<report>>]]
  /\ UNCHANGED tempDirs

\* withTempDir, exit: the directory is removed however the callback ended
TempDirRemove ==
  /\ upload.pc = "cleanup"
  /\ tempDirs' = tempDirs - 1
  /\ upload' = [upload EXCEPT !.pc = "respond", !.released = @ + 1]

\* line 185: res.send(validated), or the handler throws what the callback threw
ValidateRespond ==
  /\ upload.pc = "respond"
  /\ upload' = [upload EXCEPT !.pc = "done"]
  /\ UNCHANGED tempDirs

\* ------------------------------------------------- comments and their tags
Tags == {"GoldenTicket", "LateralMovement"}
Commands == {"keylogger", "screenshot"}

\* a comment is saved on a command with the tags picked for it
AddComment(command, tags) ==
  /\ Len(comments) < MaxComments
  /\ comments' = Append(comments, [command |-> command, tags |-> tags])

\* the comments that carry a tag
Tagged(tag) == {i \in 1..Len(comments) : tag \in comments[i].tags}

\* the aggregate mutated: a comment is grouped under one of its tags only
PresentationItemFirstTagOnly(tag) ==
  LET only == {i \in Tagged(tag) :
                 \A other \in comments[i].tags : other = tag \/ tag = "GoldenTicket"}
  IN [id |-> tag,
      commandCount |-> Cardinality({comments[i].command : i \in only}),
      count |-> Cardinality(only)]

\* the presentation item of a tag: how many comments carry it, on how many
\* commands
PresentationItem(tag) ==
  [id |-> tag,
   commandCount |-> Cardinality({comments[i].command : i \in Tagged(tag)}),
   count |-> Cardinality(Tagged(tag))]

\* the comment count a row of the list shows
CommentCount(tag) == PresentationItem(tag).count

\* the icons of a tag on a command's row: one for each comment on the
\* command that carries the tag
TagIcons(command, tag) ==
  Cardinality({i \in Tagged(tag) : comments[i].command = command})

\* ------------------------------------------------------------------ Init
\* The (server, host) a beacon may belong to.  A beacon's id matters to the
\* handlers only through the order in which a collection yields it, so of the
\* numberings of one layout a single one is kept: beacons are numbered server
\* by server and, within a server, host by host.
Links == <<[server |-> "s1", host |-> "h1"], [server |-> "s1", host |-> "h2"],
           [server |-> "s2", host |-> "h1"], [server |-> "s2", host |-> "h2"]>>
Topology ==
  {[b \in Beacons |-> Links[n[b]]] :
     n \in {m \in [Beacons -> 1..Len(Links)] :
              \A b \in Beacons : b + 1 \in Beacons => m[b] <= m[b + 1]}}

\* the rows as the parser leaves them: nothing hidden, the names it gave
ServerRow ==
  [hidden |-> FALSE, name |-> "A", displayName |-> "B", parsingPath |-> "C",
   type |-> "http"]
BeaconRow(link) ==
  [hidden |-> FALSE, displayName |-> "beacon", server |-> link.server,
   host |-> link.host]
HostRow(cobaltStrikeServer) ==
  [hidden |-> FALSE, displayName |-> "host",
   cobaltStrikeServer |-> cobaltStrikeServer]

InitRequests ==
  /\ toggle = Ended("none")
  /\ toggleLog = <<>>
  /\ query = Ended("none")
  /\ throws = 0
  /\ lastCall = [op |-> "none", outcome |-> "none"]
  /\ messages = <<>>
  /\ parsed = {}
  /\ parseCall = [outcome |-> "none"]
  /\ upload = [pc |-> "idle"]
  /\ tempDirs = 0
  /\ comments = <<>>

\* the project database after a campaign was parsed
Init ==
  /\ servers = [s \in Servers |-> ServerRow]
  /\ \E t \in Topology : beacons = [b \in Beacons |-> BeaconRow(t[b])]
  /\ \E c \in [Hosts -> BOOLEAN] : hosts = [h \in Hosts |-> HostRow(c[h])]
  /\ InitRequests

\* the same with no host that is a Cobalt Strike server: the flag is read by
\* updateServerMetadata alone
InitHidden ==
  /\ Init
  /\ \A h \in Hosts : ~hosts[h].cobaltStrikeServer

\* what the requests on the hidden flags leave alone
notHidden == <<lastCall, parseVars, uploadVars, comments>>

\* toggleServerHidden requests, one at a time, and their history
NextHidden ==
  \/ \E s \in ServerIdArgs :
       ToggleBegin(s) /\ ToggleObserved /\ UNCHANGED <<query, notHidden>>
  \/ ToggleUpdateBeacon /\ ToggleObserved /\ UNCHANGED <<query, notHidden>>
  \/ ToggleUpdateHost /\ ToggleObserved /\ UNCHANGED <<query, notHidden>>
  \/ TogglePersist /\ ToggleObserved /\ UNCHANGED <<query, notHidden>>
  \/ ToggleThrow /\ ToggleObserved /\ UNCHANGED <<query, notHidden>>

SpecHidden == InitHidden /\ [][NextHidden]_vars

\* a servers query
NextQuery ==
  \/ \E h \in BOOLEAN :
       ServersFind(h) /\ UNCHANGED <<toggle, toggleLog, notHidden>>
  \/ ServersInitBeacons /\ UNCHANGED <<toggle, toggleLog, notHidden>>
  \/ ServersReturn /\ UNCHANGED <<toggle, toggleLog, notHidden>>

\* toggleServerHidden requests with no history kept
NextToggle ==
  \/ \E s \in ServerIdArgs :
       ToggleBegin(s) /\ UNCHANGED <<toggleLog, query, notHidden>>
  \/ ToggleUpdateBeacon /\ UNCHANGED <<toggleLog, query, notHidden>>
  \/ ToggleUpdateHost /\ UNCHANGED <<toggleLog, query, notHidden>>
  \/ TogglePersist /\ UNCHANGED <<toggleLog, query, notHidden>>
  \/ ToggleThrow /\ UNCHANGED <<toggleLog, query, notHidden>>

\* the servers query beside toggleServerHidden requests
NextServers == NextToggle \/ NextQuery

SpecServers == InitHidden /\ [][NextServers]_vars

Rejections == {"none", "beaconUpdate", "hostUpdate", "persist"}

\* updateServerMetadata calls
NextMeta ==
  \E s \in ServerIdArgs, n \in NameArgs, t \in TypeArgs, r \in Rejections :
    /\ UpdateServerMetadata(s, n, t, r)
    /\ UNCHANGED <<hiddenVars, parseVars, uploadVars, comments>>

SpecMeta == Init /\ [][NextMeta]_vars

\* serverUpdate calls
NextUpdate ==
  \E s \in ServerIdArgs, i \in ServerUpdateInputs, r \in BOOLEAN :
    /\ ServerUpdate(s, i, r)
    /\ UNCHANGED <<hiddenVars, parseVars, uploadVars, comments>>

\* For the handlers that read no Beacon and no Host (serverUpdate loads the
\* Server with populate: false) one layout of the beacons is enough: a beacon
\* on each link in turn and the rest on the last.
OneLink(b) == Links[IF b < Len(Links) THEN b ELSE Len(Links)]
InitOneLayout ==
  /\ InitHidden
  /\ \A b \in Beacons :
       beacons[b].server = OneLink(b).server /\ beacons[b].host = OneLink(b).host

SpecUpdate == InitOneLayout /\ [][NextUpdate]_vars

\* what the requests that touch no row of the database leave alone
notParse == <<dbVars, hiddenVars, lastCall, uploadVars, comments>>
notUpload == <<dbVars, hiddenVars, lastCall, parseVars, comments>>
notTags == <<dbVars, hiddenVars, lastCall, parseVars, uploadVars>>

\* serversParse calls and the job coordinator
NextParse ==
  \/ \E bt \in BOOLEAN, c \in CampaignArgs :
       ServersParse(bt, c) /\ UNCHANGED notParse
  \/ ParseJobComplete /\ UNCHANGED notParse

SpecParse == InitOneLayout /\ [][NextParse]_vars

\* validate-files requests, one at a time
NextUpload ==
  \/ \E n \in ParserNames, f \in Uploads :
       ValidateRequest(n, f) /\ UNCHANGED notUpload
  \/ TempDirCreate /\ UNCHANGED notUpload
  \/ ValidateStage /\ UNCHANGED notUpload
  \/ ValidateInvokeParser /\ UNCHANGED notUpload
  \/ TempDirRemove /\ UNCHANGED notUpload
  \/ ValidateRespond /\ UNCHANGED notUpload

SpecUpload == InitOneLayout /\ [][NextUpload]_vars

\* comments being added
NextTags ==
  \E c \in Commands, t \in SUBSET Tags : AddComment(c, t) /\ UNCHANGED notTags

SpecTags == InitOneLayout /\ [][NextTags]_vars

\* every request the server takes
Next ==
  \/ NextHidden
  \/ NextQuery
  \/ NextMeta
  \/ NextUpdate
  \/ NextParse
  \/ NextUpload
  \/ NextTags

Spec == Init /\ [][Next]_vars

\* ---------------------------------------------------------------- claims
\* the latest toggleServerHidden call, and the one right before it
LastToggle == toggleLog[Len(toggleLog)]
TwoInARow ==
  /\ Len(toggleLog) = 2
  /\ toggleLog[1].outcome = "ok"
  /\ toggleLog[2].outcome = "ok"

\* C1 as stated: once toggleServerHidden has completed twice in a row on a
\* server, the Server, each of its Beacons and each such Beacon's Host has
\* the hidden flag it had before the first of the two calls.
C1_InvolutionOnAll ==
  TwoInARow =>
    LET s == toggleLog[2].sid
        pre == toggleLog[1].pre
    IN /\ servers[s].hidden = pre.server[s]
       /\ \A b \in BeaconsOf(s) :
            /\ beacons[b].hidden = pre.beacon[b]
            /\ hosts[beacons[b].host].hidden = pre.host[beacons[b].host]

\* C1 amended: once toggleServerHidden has completed twice in a row on a
\* server, the Server has the hidden flag it had before the first call, and
\* each of its Beacons and each such Beacon's Host has that same flag, the
\* Server's original one (so a Beacon or Host is restored exactly when it
\* agreed with the Server to begin with).
C1_InvolutionOnServer ==
  TwoInARow =>
    LET s == toggleLog[2].sid
        pre == toggleLog[1].pre
    IN /\ servers[s].hidden = pre.server[s]
       /\ \A b \in BeaconsOf(s) :
            /\ beacons[b].hidden = pre.server[s]
            /\ hosts[beacons[b].host].hidden = pre.server[s]

\* two calls in a row have completed on a server one of whose beacons began
\* with a flag other than the server's
C1_Witness ==
  /\ TwoInARow
  /\ \E b \in BeaconsOf(toggleLog[2].sid) :
       toggleLog[1].pre.beacon[b] # toggleLog[1].pre.server[toggleLog[2].sid]

\* C2: once a toggleServerHidden call on an existing server has ended, a
\* call that returned has negated the Server's flag and left every Beacon
\* of the server and each such Beacon's Host with the new value, and a call
\* that ended either way has left the server, its beacons and their hosts
\* all with the new value or all as they were: never only some of them.
C2_AllOrNothing ==
  (toggleLog # <<>> /\ LastToggle.outcome \in {"ok", "error"}) =>
    LET s == LastToggle.sid
        pre == LastToggle.pre
        new == ~pre.server[s]
        AllNew ==
          /\ servers[s].hidden = new
          /\ \A b \in BeaconsOf(s) :
               beacons[b].hidden = new /\ hosts[beacons[b].host].hidden = new
        AllOld ==
          /\ servers[s].hidden = pre.server[s]
          /\ \A b \in BeaconsOf(s) :
               /\ beacons[b].hidden = pre.beacon[b]
               /\ hosts[beacons[b].host].hidden = pre.host[beacons[b].host]
    IN /\ LastToggle.outcome = "ok" => AllNew
       /\ AllNew \/ AllOld

\* C3: the response of servers(hidden=false), as it is built and as it is
\* returned, holds no Server whose hidden flag is true and, under a Server
\* it holds, no Beacon whose hidden flag is true.
C3_NoHiddenReturned ==
  (query.pc = "init" /\ ~query.hiddenArg) =>
    \A r \in query.result :
      ~r.hidden /\ \A b \in r.beacons : ~b.hidden

\* servers(hidden=false) is about to return a Server with a Beacon, having
\* left out a hidden Beacon of that Server, while another Server is hidden
C3_Witness ==
  /\ query.pc = "init" /\ ~query.hiddenArg /\ query.todo = <<>>
  /\ \E r \in query.result :
       /\ r.beacons # {}
       /\ \E b \in BeaconsOf(r.id) : beacons[b].hidden
  /\ \E s \in Servers : servers[s].hidden

\* the value a field ends with under partial-update semantics
PartialUpdate(old, given) == IF given = Absent \/ given = "" THEN old ELSE given

\* C4: a serverUpdate call that returns, on an existing server, leaves each
\* of name, displayName and parsingPath that the input does not give (or
\* gives empty) as it was and sets each other to the input's value; the
\* server's other fields, every other server, every beacon and every host
\* are as before.
C4_PartialUpdate ==
  [][\A sid \in Servers, input \in ServerUpdateInputs :
       ServerUpdate(sid, input, FALSE) =>
         /\ servers'[sid].name = PartialUpdate(servers[sid].name, input.name)
         /\ servers'[sid].displayName =
              PartialUpdate(servers[sid].displayName, input.displayName)
         /\ servers'[sid].parsingPath =
              PartialUpdate(servers[sid].parsingPath, input.parsingPath)
         /\ servers'[sid].hidden = servers[sid].hidden
         /\ servers'[sid].type = servers[sid].type
         /\ \A s \in Servers \ {sid} : servers'[s] = servers[s]
         /\ beacons' = beacons
         /\ hosts' = hosts]_vars

\* a serverUpdate has returned and a Server that was name "A", displayName
\* "B", parsingPath "C" is name "X", displayName "B", parsingPath "C"
C4_Witness ==
  /\ lastCall = [op |-> "serverUpdate", outcome |-> "ok"]
  /\ \E s \in Servers :
       /\ servers[s].name = "X"
       /\ servers[s].displayName = "B"
       /\ servers[s].parsingPath = "C"

\* the beacons and hosts a rename of server sid reaches
RenamedBeacons(sid) ==
  {b \in Beacons :
     beacons[b].server = sid /\ hosts[beacons[b].host].cobaltStrikeServer}
RenamedHosts(sid) ==
  {h \in Hosts :
     hosts[h].cobaltStrikeServer /\ \E b \in BeaconsOf(sid) : beacons[b].host = h}

\* C5: an updateServerMetadata call with a (non-empty) serverDisplayName
\* that returns has set the Server's displayName and that of the Beacons of
\* the server whose Host is a cobaltStrikeServer and of the Hosts that are a
\* cobaltStrikeServer with a Beacon on the server; and, whether it returns
\* or throws, every other Beacon, Host and Server keeps its displayName.
C5_RenameScope ==
  [][\A sid \in Servers, n \in NameArgs \ {Absent, ""}, t \in TypeArgs,
        r \in {"none", "beaconUpdate", "hostUpdate", "persist"} :
       UpdateServerMetadata(sid, n, t, r) =>
         /\ r = "none" =>
              /\ servers'[sid].displayName = n
              /\ \A b \in RenamedBeacons(sid) : beacons'[b].displayName = n
              /\ \A h \in RenamedHosts(sid) : hosts'[h].displayName = n
         /\ \A b \in Beacons \ RenamedBeacons(sid) :
              beacons'[b].displayName = beacons[b].displayName
         /\ \A h \in Hosts \ RenamedHosts(sid) :
              hosts'[h].displayName = hosts[h].displayName
         /\ \A s \in Servers \ {sid} :
              servers'[s].displayName = servers[s].displayName]_vars

\* a rename has returned: the server is "X", so is a beacon of it on a
\* cobaltStrikeServer host and that host, while a beacon of it on another
\* host, and a beacon of another server on the renamed host, keep their names
C5_Witness ==
  /\ lastCall = [op |-> "updateServerMetadata", outcome |-> "ok"]
  /\ \E s \in Servers :
       /\ servers[s].displayName = "X"
       /\ \E b \in RenamedBeacons(s) :
            /\ beacons[b].displayName = "X"
            /\ hosts[beacons[b].host].displayName = "X"
            /\ \E o \in Beacons :
                 /\ beacons[o].server # s
                 /\ beacons[o].host = beacons[b].host
                 /\ beacons[o].displayName = "beacon"
       /\ \E b \in BeaconsOf(s) \ RenamedBeacons(s) :
            /\ beacons[b].displayName = "beacon"
            /\ hosts[beacons[b].host].displayName = "host"

\* C6: an updateServerMetadata call with only serverType given leaves the
\* displayName of every Server, Beacon and Host as it was and, when it
\* returns, has set the Server's meta.type; a call with no serverType
\* leaves every Server's meta.type as it was.
C6_TypeAndNameApart ==
  [][\A sid \in Servers, r \in {"none", "beaconUpdate", "hostUpdate", "persist"} :
       /\ \A t \in TypeArgs \ {Absent} :
            UpdateServerMetadata(sid, Absent, t, r) =>
              /\ \A s \in Servers : servers'[s].displayName = servers[s].displayName
              /\ \A b \in Beacons : beacons'[b].displayName = beacons[b].displayName
              /\ \A h \in Hosts : hosts'[h].displayName = hosts[h].displayName
              /\ r = "none" => servers'[sid].type = t
       /\ \A n \in NameArgs :
            UpdateServerMetadata(sid, n, Absent, r) =>
              \A s \in Servers : servers'[s].type = servers[s].type]_vars

\* a call has returned with one Server given a type and still named as
\* parsed, and the other renamed and still of the type it was parsed with
C6_Witness ==
  /\ lastCall = [op |-> "updateServerMetadata", outcome |-> "ok"]
  /\ \E s \in Servers : servers[s].type = "https" /\ servers[s].displayName = "B"
  /\ \E s \in Servers : servers[s].type = "http" /\ servers[s].displayName = "X"

\* the validate-files request passed the tests of lines 172-173
PassedChecks ==
  upload.pc # "idle" /\ upload.parserName \in ParserInfo /\ upload.files.kind # "none"

\* C7: the temporary directory of a validate-files request exists, made
\* once and not yet removed, when the external parser is invoked; a request
\* that has ended has left no temporary directory, has removed as many as
\* it made and made at most one; and a request whose directory was made has
\* ended with exactly one made and one removed, whether the parser
\* reported, the parser failed or the callback threw.
C7_TempDirScoped ==
  /\ upload.pc = "invoke" =>
       tempDirs = 1 /\ upload.acquired = 1 /\ upload.released = 0
  /\ upload.pc = "done" =>
       /\ tempDirs = 0
       /\ upload.released = upload.acquired
       /\ upload.acquired <= 1
       /\ upload.invoked > 0 => upload.acquired = 1
       /\ (PassedChecks /\ upload.error # "mkdtemp") => upload.acquired = 1

\* a request has ended after the parser failed, with its one directory
\* made and removed; the moves of its files had failed
C7_Witness ==
  /\ upload.pc = "done"
  /\ upload.error = "parser"
  /\ upload.invoked = 1
  /\ upload.staged = {}
  /\ upload.acquired = 1 /\ upload.released = 1
  /\ tempDirs = 0

\* C8: a serversParse call in blue team mode fails with the blue team
\* error and sends no message; a call in another mode for a campaign that
\* resolves sends exactly one PARSE_CAMPAIGN message for the campaign and
\* answers true with the message still in the coordinator's queue, while
\* no parse job has completed meanwhile.
C8_ParseFireAndForget ==
  [][\A bt \in BOOLEAN, c \in CampaignArgs :
       ServersParse(bt, c) =>
         /\ bt => /\ parseCall'.outcome = "Parsing cannot be invoked from blue team mode"
                  /\ messages' = messages
         /\ (~bt /\ c \in Campaigns) =>
              /\ parseCall'.outcome = "true"
              /\ Len(messages') = Len(messages) + 1
              /\ SubSeq(messages', 1, Len(messages)) = messages
              /\ messages'[Len(messages')] = [type |-> "PARSE_CAMPAIGN", campaignId |-> c]
              /\ parsed' = parsed]_vars

\* a call has answered true for a campaign that is not parsed, its message
\* the only one queued
C8_Witness ==
  /\ parseCall.outcome = "true"
  /\ ~parseCall.blueTeam
  /\ parseCall.campaignId \notin parsed
  /\ messages = <<[type |-> "PARSE_CAMPAIGN", campaignId |-> parseCall.campaignId]>>

\* C9 as stated: a validate-files request without files is answered 500
\* {msg: 'No files provided'}, one naming an unknown parser is answered 400
\* {msg: 'Parser <name> is not available'}, and neither makes a temporary
\* directory or invokes the parser.
C9_ErrorResponses ==
  upload.pc = "done" =>
    /\ upload.files.kind = "none" =>
         /\ upload.response = [status |-> 500, body |-> <<"No files provided">>]
         /\ upload.acquired = 0 /\ upload.invoked = 0 /\ tempDirs = 0
    /\ upload.parserName \notin ParserInfo =>
         /\ upload.response =
              [status |-> 400,
               body |-> <<"Parser ", upload.parserName, " is not available">>]
         /\ upload.acquired = 0 /\ upload.invoked = 0 /\ tempDirs = 0

\* C9 amended: a request naming an unknown parser is answered 400 {msg:
\* 'Parser <name> is not available'}, with files or without; a request
\* naming a known parser without files is answered 500 {msg: 'No files
\* provided'}; neither makes a temporary directory or invokes the parser.
C9_ErrorResponsesInOrder ==
  upload.pc = "done" =>
    /\ (upload.parserName \in ParserInfo /\ upload.files.kind = "none") =>
         /\ upload.response = [status |-> 500, body |-> <<"No files provided">>]
         /\ upload.acquired = 0 /\ upload.invoked = 0 /\ tempDirs = 0
    /\ upload.parserName \notin ParserInfo =>
         /\ upload.response =
              [status |-> 400,
               body |-> <<"Parser ", upload.parserName, " is not available">>]
         /\ upload.acquired = 0 /\ upload.invoked = 0 /\ tempDirs = 0

\* a request naming an unknown parser, without files, has been answered 400
C9_Witness ==
  /\ upload.pc = "done"
  /\ upload.parserName \notin ParserInfo
  /\ upload.files.kind = "none"
  /\ upload.response.status = 400

\* C10: when a comment carrying both #GoldenTicket and #LateralMovement is
\* added on a command that shows an icon of neither, the presentation count
\* of each of the two tags is one more than before, and the command shows
\* exactly one icon of each.
C10_TagCountsAndIcons ==
  [][\A c \in Commands :
       (/\ AddComment(c, Tags)
        /\ \A t \in Tags : TagIcons(c, t) = 0) =>
         \A t \in Tags :
           /\ CommentCount(t)' = CommentCount(t) + 1
           /\ TagIcons(c, t)' = 1]_vars

\* a command that had no tagged comment shows one icon of each tag, while
\* each tag already counts a comment on the other command
C10_Witness ==
  \E c \in Commands :
    /\ \A t \in Tags : TagIcons(c, t) = 1 /\ CommentCount(t) = 2
    /\ comments[Len(comments)] = [command |-> c, tags |-> Tags]

====
